---------------------------- MODULE Spec2Model ----------------------------
(***************************************************************************)
(* Model of the intent-driven retrieval coordinator of                     *)
(* src/src/tools/intelligent_retrieval.py.                                 *)
(*                                                                         *)
(* Strings are sequences of one-character strings, so that lower-casing,  *)
(* whitespace splitting, slicing, concatenation and the regular            *)
(* expressions \b(a|b|...)\b are computed on characters as Python does.    *)
(* The server handles one tool call at a time: a handler is an async       *)
(* function without any await, so it runs to completion once started.      *)
(***************************************************************************)
EXTENDS Integers, Sequences, FiniteSets, TLC

VARIABLES
  request,          \* <<>> or <<the tool called and its arguments>>
  locals,           \* <<>> or <<the handler's locals when it returned>>
  response,         \* <<>> or <<the dict the handler returned>>
  effects,          \* file loads and service calls made by the call in flight
  inflight,         \* calls of intelligent_retrieve open at the same time
  sys_modules,      \* names bound in sys.modules by the coordinator
  module_loadable   \* whether the file at RAG_MODULE_PATH loads on this host

vars ==
  <<request, locals, response, effects, inflight, sys_modules, module_loadable>>

(***************************************************************************)
(* Bounds of the model.                                                    *)
(***************************************************************************)
MaxPhrases == 2     \* phrases joined into one query
MaxOver == 3        \* longest context is CONTEXT_TAIL + MaxOver characters
MaxFill == 9        \* filler words appended to a query
MaxConcurrent == 2  \* calls open at the same time

(***************************************************************************)
(* Characters.                                                             *)
(***************************************************************************)
UpperCase == <<"A","B","C","D","E","F","G","H","I","J","K","L","M","N","O","P","Q","R","S","T","U","V","W","X","Y","Z">>
LowerCase == <<"a","b","c","d","e","f","g","h","i","j","k","l","m","n","o","p","q","r","s","t","u","v","w","x","y","z">>
Digits == <<"0","1","2","3","4","5","6","7","8","9">>

Range(s) == {s[i] : i \in 1..Len(s)}

UpperSet == Range(UpperCase)

WordChars == Range(LowerCase) \cup Range(UpperCase) \cup Range(Digits) \cup {"_"}

\* str.lower() on one character
LowerChar_Identity(c) == c

LowerOf ==
  [c \in UpperSet |->
     LowerCase[CHOOSE i \in 1..Len(UpperCase) : UpperCase[i] = c]]

LowerChar(c) == IF c \in UpperSet THEN LowerOf[c] ELSE c

\* str.lower()
RECURSIVE Lower(_)
Lower(s) ==
  IF s = <<>> THEN <<>> ELSE <<LowerChar(Head(s))>> \o Lower(Tail(s))

\* \w of the re module
IsWordChar(c) == c \in WordChars

\* the characters str.split() separates on
IsSpace(c) == c \in {" ", "\t", "\n", "\r"}

(***************************************************************************)
(* Regular expressions of the shape \b(alt1|alt2|...)\b.                   *)
(***************************************************************************)
\* \b between s[p] and s[p+1]; outside the string counts as a non-word
WordAt(s, p) == p >= 1 /\ p <= Len(s) /\ IsWordChar(s[p])

Boundary(s, p) == WordAt(s, p) # WordAt(s, p + 1)

\* the literal alt occurs in s from position i on and a \b follows it
MatchAt(alt, s, i) ==
  /\ i + Len(alt) - 1 <= Len(s)
  /\ \A k \in 1..Len(alt) : s[i + k - 1] = alt[k]
  /\ Boundary(s, i + Len(alt) - 1)

\* re.search(r"\b(alt1|alt2|...)\b", s): some position i after a \b where
\* one of the alternatives matches
Search(pattern, s) ==
  \E i \in 1..Len(s) :
    /\ Boundary(s, i - 1)
    /\ \E a \in 1..Len(pattern) : MatchAt(pattern[a], s, i)

\* any(re.search(pattern, s, re.IGNORECASE) for pattern in patterns), s lower-cased
AnySearch(patterns, s) ==
  \E p \in 1..Len(patterns) : Search(patterns[p], s)

(***************************************************************************)
(* Pattern tables.                                                         *)
(***************************************************************************)
KNOWLEDGE_PATTERNS ==
  <<
     << <<"w","h","a","t"," ","i","s">>,
        <<"w","h","a","t"," ","a","r","e">>,
        <<"t","e","l","l"," ","m","e"," ","a","b","o","u","t">>,
        <<"e","x","p","l","a","i","n">>,
        <<"d","e","s","c","r","i","b","e">> >>,
     << <<"h","o","w"," ","d","o","e","s">>,
        <<"h","o","w"," ","d","o">>,
        <<"h","o","w"," ","t","o">>,
        <<"h","o","w"," ","c","a","n">> >>,
     << <<"w","h","y">>,
        <<"w","h","e","n">>,
        <<"w","h","e","r","e">>,
        <<"w","h","o">> >>,
     << <<"d","e","f","i","n","i","t","i","o","n"," ","o","f">>,
        <<"m","e","a","n","i","n","g"," ","o","f">>,
        <<"c","o","n","c","e","p","t"," ","o","f">> >>
  >>

RESEARCH_PATTERNS ==
  <<
     << <<"f","i","n","d">>,
        <<"s","e","a","r","c","h">>,
        <<"l","o","o","k","u","p">>,
        <<"g","e","t"," ","i","n","f","o","r","m","a","t","i","o","n">>,
        <<"r","e","s","e","a","r","c","h">> >>,
     << <<"s","h","o","w"," ","m","e">>,
        <<"g","i","v","e"," ","m","e">>,
        <<"p","r","o","v","i","d","e">>,
        <<"f","e","t","c","h">> >>,
     << <<"d","e","t","a","i","l","s"," ","a","b","o","u","t">>,
        <<"d","a","t","a"," ","o","n">>,
        <<"i","n","f","o","r","m","a","t","i","o","n"," ","o","n">> >>
  >>

ANALYSIS_PATTERNS ==
  <<
     << <<"a","n","a","l","y","z","e">>,
        <<"c","o","m","p","a","r","e">>,
        <<"r","e","v","i","e","w">>,
        <<"s","u","m","m","a","r","i","z","e">>,
        <<"e","v","a","l","u","a","t","e">> >>,
     << <<"d","i","f","f","e","r","e","n","c","e","s"," ","b","e","t","w","e","e","n">>,
        <<"s","i","m","i","l","a","r","i","t","i","e","s"," ","b","e","t","w","e","e","n">> >>,
     << <<"p","r","o","s"," ","a","n","d"," ","c","o","n","s">>,
        <<"a","d","v","a","n","t","a","g","e","s">>,
        <<"d","i","s","a","d","v","a","n","t","a","g","e","s">> >>
  >>

EXAMPLE_PATTERNS ==
  <<
     << <<"e","x","a","m","p","l","e">>,
        <<"s","a","m","p","l","e">>,
        <<"d","e","m","o","n","s","t","r","a","t","i","o","n">>,
        <<"s","h","o","w"," ","e","x","a","m","p","l","e">> >>,
     << <<"c","o","d","e"," ","e","x","a","m","p","l","e">>,
        <<"i","m","p","l","e","m","e","n","t","a","t","i","o","n"," ","e","x","a","m","p","l","e">> >>
  >>

TECHNICAL_PATTERNS ==
  <<
     << <<"a","p","i">>,
        <<"f","u","n","c","t","i","o","n">>,
        <<"c","l","a","s","s">>,
        <<"m","e","t","h","o","d">>,
        <<"a","l","g","o","r","i","t","h","m">>,
        <<"c","o","d","e">>,
        <<"p","r","o","g","r","a","m","m","i","n","g">> >>,
     << <<"i","m","p","l","e","m","e","n","t","a","t","i","o","n">>,
        <<"f","r","a","m","e","w","o","r","k">>,
        <<"l","i","b","r","a","r","y">>,
        <<"d","a","t","a","b","a","s","e">>,
        <<"s","e","r","v","e","r">> >>,
     << <<"e","r","r","o","r">>,
        <<"b","u","g">>,
        <<"d","e","b","u","g">>,
        <<"t","e","s","t">>,
        <<"d","e","p","l","o","y","m","e","n","t">> >>
  >>

BUSINESS_PATTERNS ==
  <<
     << <<"s","t","r","a","t","e","g","y">>,
        <<"m","a","r","k","e","t">>,
        <<"r","e","v","e","n","u","e">>,
        <<"c","o","s","t">>,
        <<"p","r","o","f","i","t">>,
        <<"c","u","s","t","o","m","e","r">> >>,
     << <<"b","u","s","i","n","e","s","s">>,
        <<"m","a","n","a","g","e","m","e","n","t">>,
        <<"o","p","e","r","a","t","i","o","n","s">>,
        <<"s","a","l","e","s">>,
        <<"m","a","r","k","e","t","i","n","g">> >>
  >>

CODE_PATTERNS ==
  <<
     << <<"p","y","t","h","o","n">>,
        <<"j","a","v","a","s","c","r","i","p","t">>,
        <<"j","a","v","a">>,
        <<"r","e","a","c","t">>,
        <<"n","o","d","e">>,
        <<"s","q","l">>,
        <<"h","t","m","l">>,
        <<"c","s","s">> >>,
     << <<"f","u","n","c","t","i","o","n">>,
        <<"c","l","a","s","s">>,
        <<"v","a","r","i","a","b","l","e">>,
        <<"l","o","o","p">>,
        <<"c","o","n","d","i","t","i","o","n">>,
        <<"i","m","p","o","r","t">> >>
  >>

\* dict order of DOMAIN_PATTERNS: technical, business, code
DOMAIN_PATTERNS_CodeFirst ==
  << [name |-> "code",      patterns |-> CODE_PATTERNS],
     [name |-> "technical", patterns |-> TECHNICAL_PATTERNS],
     [name |-> "business",  patterns |-> BUSINESS_PATTERNS] >>

DOMAIN_PATTERNS ==
  << [name |-> "technical", patterns |-> TECHNICAL_PATTERNS],
     [name |-> "business",  patterns |-> BUSINESS_PATTERNS],
     [name |-> "code",      patterns |-> CODE_PATTERNS] >>

QUESTION_WORDS ==
  << <<"w","h","a","t">>,
     <<"h","o","w">>,
     <<"w","h","y">>,
     <<"w","h","e","n">>,
     <<"w","h","e","r","e">>,
     <<"w","h","o">> >>

SPECIFIC_WORDS ==
  << <<"s","p","e","c","i","f","i","c">>,
     <<"e","x","a","c","t","l","y">>,
     <<"p","r","e","c","i","s","e","l","y">>,
     <<"d","e","t","a","i","l","s">> >>

REFERENTIAL_WORDS ==
  << <<"t","h","a","t">>,
     <<"i","t">>,
     <<"t","h","i","s">>,
     <<"t","h","e","y">>,
     <<"t","h","o","s","e">> >>

\* conversation_context[-CONTEXT_TAIL:]
CONTEXT_TAIL == 200

(***************************************************************************)
(* analyze_query_intent                                                    *)
(***************************************************************************)
\* the if/elif chain over the four intent families
IntentOf_ResearchFirst(query_lower) ==
  IF AnySearch(RESEARCH_PATTERNS, query_lower)
    THEN [needs_retrieval |-> TRUE, intent_type |-> "research"]
  ELSE IF AnySearch(KNOWLEDGE_PATTERNS, query_lower)
    THEN [needs_retrieval |-> TRUE, intent_type |-> "knowledge"]
  ELSE IF AnySearch(ANALYSIS_PATTERNS, query_lower)
    THEN [needs_retrieval |-> TRUE, intent_type |-> "analysis"]
  ELSE IF AnySearch(EXAMPLE_PATTERNS, query_lower)
    THEN [needs_retrieval |-> TRUE, intent_type |-> "examples"]
  ELSE [needs_retrieval |-> FALSE, intent_type |-> "conversational"]

IntentOf_DefaultRetrieve(query_lower) ==
  IF AnySearch(KNOWLEDGE_PATTERNS, query_lower)
    THEN [needs_retrieval |-> TRUE, intent_type |-> "knowledge"]
  ELSE IF AnySearch(RESEARCH_PATTERNS, query_lower)
    THEN [needs_retrieval |-> TRUE, intent_type |-> "research"]
  ELSE IF AnySearch(ANALYSIS_PATTERNS, query_lower)
    THEN [needs_retrieval |-> TRUE, intent_type |-> "analysis"]
  ELSE IF AnySearch(EXAMPLE_PATTERNS, query_lower)
    THEN [needs_retrieval |-> TRUE, intent_type |-> "examples"]
  ELSE [needs_retrieval |-> TRUE, intent_type |-> "conversational"]

IntentOf(query_lower) ==
  IF AnySearch(KNOWLEDGE_PATTERNS, query_lower)
    THEN [needs_retrieval |-> TRUE, intent_type |-> "knowledge"]
  ELSE IF AnySearch(RESEARCH_PATTERNS, query_lower)
    THEN [needs_retrieval |-> TRUE, intent_type |-> "research"]
  ELSE IF AnySearch(ANALYSIS_PATTERNS, query_lower)
    THEN [needs_retrieval |-> TRUE, intent_type |-> "analysis"]
  ELSE IF AnySearch(EXAMPLE_PATTERNS, query_lower)
    THEN [needs_retrieval |-> TRUE, intent_type |-> "examples"]
  ELSE [needs_retrieval |-> FALSE, intent_type |-> "conversational"]

\* the for loop over DOMAIN_PATTERNS.items() with its break
RECURSIVE DomainFrom(_, _)
DomainFrom(i, query_lower) ==
  IF i > Len(DOMAIN_PATTERNS) THEN "general"
  ELSE IF AnySearch(DOMAIN_PATTERNS[i].patterns, query_lower)
    THEN DOMAIN_PATTERNS[i].name
  ELSE DomainFrom(i + 1, query_lower)

DomainOf_OnlyWhenRetrieving(query_lower) ==
  IF IntentOf(query_lower).needs_retrieval
    THEN DomainFrom(1, query_lower)
    ELSE "general"

DomainOf(query_lower) == DomainFrom(1, query_lower)

\* len(query.split())
WordCount_SplitOnSpace(query) ==
  Cardinality({i \in 1..Len(query) : query[i] = " "}) + 1

WordCount(query) ==
  Cardinality({i \in 1..Len(query) :
                 /\ ~IsSpace(query[i])
                 /\ (i = 1 \/ IsSpace(query[i - 1]))})

ComplexityOf_StrictMedium(word_count) ==
  IF word_count <= 3 THEN "simple"
  ELSE IF word_count < 8 THEN "medium"
  ELSE "complex"

ComplexityOf(word_count) ==
  IF word_count <= 3 THEN "simple"
  ELSE IF word_count <= 8 THEN "medium"
  ELSE "complex"

\* {...}.get(complexity, 5)
TopKOf_ComplexMissing(complexity) ==
  CASE complexity = "simple" -> 3
    [] complexity = "medium" -> 5
    [] OTHER -> 5

TopKOf(complexity) ==
  CASE complexity = "simple" -> 3
    [] complexity = "medium" -> 5
    [] complexity = "complex" -> 10
    [] OTHER -> 5

\* {...}.get(domain, "")
NamespaceOf_CodeMissing(domain) ==
  IF domain \in {"technical", "business"} THEN domain ELSE ""

NamespaceOf(domain) ==
  IF domain \in {"technical", "code", "business"} THEN domain ELSE ""

analyze_query_intent_SpecificBoost(query) ==
  LET query_lower == Lower(query)
      intent == IntentOf(query_lower)
      domain == DomainOf(query_lower)
      word_count == WordCount(query)
      complexity == ComplexityOf(word_count)
      is_specific == Search(SPECIFIC_WORDS, query_lower)
  IN  [needs_retrieval |-> intent.needs_retrieval,
       intent_type |-> intent.intent_type,
       domain |-> domain,
       complexity |-> complexity,
       suggested_top_k |-> IF is_specific THEN 10 ELSE TopKOf(complexity),
       suggested_namespace |-> NamespaceOf(domain),
       query_analysis |->
         [word_count |-> word_count,
          has_question_words |-> Search(QUESTION_WORDS, query_lower),
          is_specific |-> is_specific]]

analyze_query_intent(query) ==
  LET query_lower == Lower(query)
      intent == IntentOf(query_lower)
      domain == DomainOf(query_lower)
      word_count == WordCount(query)
      complexity == ComplexityOf(word_count)
  IN  [needs_retrieval |-> intent.needs_retrieval,
       intent_type |-> intent.intent_type,
       domain |-> domain,
       complexity |-> complexity,
       suggested_top_k |-> TopKOf(complexity),
       suggested_namespace |-> NamespaceOf(domain),
       query_analysis |->
         [word_count |-> word_count,
          has_question_words |-> Search(QUESTION_WORDS, query_lower),
          is_specific |-> Search(SPECIFIC_WORDS, query_lower)]]

(***************************************************************************)
(* intelligent_retrieve                                                    *)
(***************************************************************************)
\* s[-n:]
LastChars_OffByOne(s, n) ==
  IF Len(s) <= n THEN s ELSE SubSeq(s, Len(s) - n, Len(s))

LastChars(s, n) ==
  IF Len(s) <= n THEN s ELSE SubSeq(s, Len(s) - n + 1, Len(s))

\* conversation_context is truthy and the lower-cased query holds a
\* referential pronoun as a whole word
IsReferential_IgnoresContext(query, conversation_context) ==
  Search(REFERENTIAL_WORDS, Lower(query))

IsReferential_AnyContext(query, conversation_context) ==
  conversation_context # <<>>

IsReferential(query, conversation_context) ==
  /\ conversation_context # <<>>
  /\ Search(REFERENTIAL_WORDS, Lower(query))

\* the context analysis: the override of the analysis and enhanced_query
Fuse_IntentOnly(query, conversation_context, analysis) ==
  IF IsReferential(query, conversation_context)
    THEN [analysis |-> [analysis EXCEPT !.intent_type = "contextual_reference"],
          enhanced_query |->
            LastChars(conversation_context, CONTEXT_TAIL) \o <<" ">> \o query]
    ELSE [analysis |-> analysis, enhanced_query |-> query]

Fuse_Reanalyses(query, conversation_context, analysis) ==
  IF IsReferential(query, conversation_context)
    THEN LET enhanced_query ==
               LastChars(conversation_context, CONTEXT_TAIL) \o <<" ">> \o query
         IN  [analysis |-> [analyze_query_intent(enhanced_query)
                              EXCEPT !.needs_retrieval = TRUE,
                                     !.intent_type = "contextual_reference"],
              enhanced_query |-> enhanced_query]
    ELSE [analysis |-> analysis, enhanced_query |-> query]

Fuse(query, conversation_context, analysis) ==
  IF IsReferential(query, conversation_context)
    THEN [analysis |-> [analysis EXCEPT !.needs_retrieval = TRUE,
                                        !.intent_type = "contextual_reference"],
          enhanced_query |->
            LastChars(conversation_context, CONTEXT_TAIL) \o <<" ">> \o query]
    ELSE [analysis |-> analysis, enhanced_query |-> query]

\* the decision logic: TRUE when the handler returns without retrieval
AnswersDirectly_Either(analysis, force_retrieval) ==
  ~analysis.needs_retrieval \/ ~force_retrieval

AnswersDirectly(analysis, force_retrieval) ==
  ~analysis.needs_retrieval /\ ~force_retrieval

NoRetrievalResult(analysis) ==
  [success |-> TRUE,
   decision |-> "no_retrieval_needed",
   intent_analysis |-> analysis,
   message |-> "Query detected as conversational - no retrieval needed",
   suggested_response |-> "direct_answer"]

RetrievalParams(analysis, index_name, enhanced_query) ==
  [index_name |-> index_name,
   namespace |-> analysis.suggested_namespace,
   query |-> enhanced_query,
   top_k |-> analysis.suggested_top_k]

RetrievalResult_WithHint(analysis, index_name, enhanced_query) ==
  [success |-> TRUE,
   decision |-> "retrieval_triggered",
   intent_analysis |-> analysis,
   retrieval_params |-> RetrievalParams(analysis, index_name, enhanced_query),
   enhanced_query |-> enhanced_query,
   message |-> <<"Automatic retrieval triggered for ", analysis.intent_type,
                 " query in ", analysis.domain, " domain">>,
   suggested_response |-> "direct_answer",
   next_action |-> "call_pinecone_retrieve_with_params"]

RetrievalResult(analysis, index_name, enhanced_query) ==
  [success |-> TRUE,
   decision |-> "retrieval_triggered",
   intent_analysis |-> analysis,
   retrieval_params |-> RetrievalParams(analysis, index_name, enhanced_query),
   enhanced_query |-> enhanced_query,
   message |-> <<"Automatic retrieval triggered for ", analysis.intent_type,
                 " query in ", analysis.domain, " domain">>,
   next_action |-> "call_pinecone_retrieve_with_params"]

\* the except handler
ErrorResult_NoDecision(e) ==
  [success |-> FALSE,
   error |-> <<"Intelligent retrieval failed: ", e>>]

ErrorResult(e) ==
  [success |-> FALSE,
   error |-> <<"Intelligent retrieval failed: ", e>>,
   decision |-> "error"]

\* The load of rag_retrical.py from the absolute path written in the source:
LoadRagModule_ReusesLoaded(modules, loadable) ==
  [modules |-> modules \cup {"rag_module"},
   effects |-> IF "rag_module" \in modules THEN {} ELSE {"exec_module"},
   raised |-> ~loadable /\ "rag_module" \notin modules]

LoadRagModule_RejectsReload(modules, loadable) ==
  [modules |-> modules \cup {"rag_module"},
   effects |-> {"exec_module"},
   raised |-> ~loadable \/ "rag_module" \in modules]


\* sys.modules["rag_module"] is bound first, then exec_module reads and runs
\* the file and raises when it cannot be read or executed on this host.
LoadRagModule(modules, loadable) ==
  [modules |-> modules \cup {"rag_module"},
   effects |-> {"exec_module"},
   raised |-> ~loadable]

\* the whole handler: what it returns, its locals, the file loads and service
\* calls it made, and sys.modules after it
intelligent_retrieve_LoadsFirst(query, index_name, force_retrieval, conversation_context, modules, loadable) ==
  LET fused == Fuse(query, conversation_context, analyze_query_intent(query))
      analysis == fused.analysis
      enhanced_query == fused.enhanced_query
      frame == [analysis |-> analysis, enhanced_query |-> enhanced_query]
      load == LoadRagModule(modules, loadable)
  IN  IF load.raised
        THEN [result |-> ErrorResult("FileNotFoundError"),
              locals |-> frame,
              effects |-> load.effects,
              modules |-> load.modules]
        ELSE IF AnswersDirectly(analysis, force_retrieval)
          THEN [result |-> NoRetrievalResult(analysis),
                locals |-> frame,
                effects |-> load.effects,
                modules |-> load.modules]
          ELSE [result |->
                  RetrievalResult(analysis, index_name, enhanced_query),
                locals |-> frame,
                effects |-> load.effects,
                modules |-> load.modules]

intelligent_retrieve(query, index_name, force_retrieval, conversation_context, modules, loadable) ==
  LET fused == Fuse(query, conversation_context, analyze_query_intent(query))
      analysis == fused.analysis
      enhanced_query == fused.enhanced_query
      frame == [analysis |-> analysis, enhanced_query |-> enhanced_query]
  IN  IF AnswersDirectly(analysis, force_retrieval)
        THEN [result |-> NoRetrievalResult(analysis),
              locals |-> frame,
              effects |-> {},
              modules |-> modules]
        ELSE LET load == LoadRagModule(modules, loadable)
             IN  IF load.raised
                   THEN [result |-> ErrorResult("FileNotFoundError"),
                         locals |-> frame,
                         effects |-> load.effects,
                         modules |-> load.modules]
                   ELSE [result |->
                           RetrievalResult(analysis, index_name, enhanced_query),
                         locals |-> frame,
                         effects |-> load.effects,
                         modules |-> load.modules]

(***************************************************************************)
(* query_intent_analyzer                                                   *)
(***************************************************************************)
query_intent_analyzer_AlwaysRetrieve(query) ==
  LET analysis == analyze_query_intent(query)
  IN  [query |-> query,
       analysis |-> analysis,
       recommendations |->
         [should_retrieve |-> TRUE,
          retrieval_params |->
            [top_k |-> analysis.suggested_top_k,
             namespace |-> analysis.suggested_namespace],
          enhancement_suggestions |->
            << <<"Consider adding domain-specific keywords">>,
               <<"Query complexity: ", analysis.complexity>>,
               <<"Detected domain: ", analysis.domain>> >>]]

query_intent_analyzer(query) ==
  LET analysis == analyze_query_intent(query)
  IN  [query |-> query,
       analysis |-> analysis,
       recommendations |->
         [should_retrieve |-> analysis.needs_retrieval,
          retrieval_params |->
            [top_k |-> analysis.suggested_top_k,
             namespace |-> analysis.suggested_namespace],
          enhancement_suggestions |->
            << <<"Consider adding domain-specific keywords">>,
               <<"Query complexity: ", analysis.complexity>>,
               <<"Detected domain: ", analysis.domain>> >>]]

(***************************************************************************)
(* auto_rag_workflow                                                       *)
(***************************************************************************)
auto_rag_workflow_Fuses(query, index_name, conversation_context, user_preferences) ==
  LET fused == Fuse(query, conversation_context, analyze_query_intent(query))
      analysis == fused.analysis
  IN  IF analysis.needs_retrieval
        THEN [success |-> TRUE,
              workflow_stage |-> "retrieval_triggered",
              retrieval_decision |->
                [intent_detected |-> analysis.intent_type,
                 domain |-> analysis.domain,
                 should_call_pinecone_retrieve |-> TRUE,
                 parameters |->
                   [index_name |-> index_name,
                    namespace |-> analysis.suggested_namespace,
                    query |-> fused.enhanced_query,
                    top_k |-> analysis.suggested_top_k]],
              message |-> <<"Auto-triggered ", analysis.intent_type,
                            " retrieval for domain: ", analysis.domain>>,
              next_steps |->
                <<"1. Call pinecone_retrieve with suggested parameters",
                  "2. Process and rank results",
                  "3. Generate contextual response",
                  "4. Provide source citations">>]
        ELSE [success |-> TRUE,
              workflow_stage |-> "direct_response",
              retrieval_decision |-> [should_retrieve |-> FALSE],
              message |-> "Query identified as conversational - responding directly without retrieval"]

auto_rag_workflow(query, index_name, conversation_context, user_preferences) ==
  LET analysis == analyze_query_intent(query)
  IN  IF analysis.needs_retrieval
        THEN [success |-> TRUE,
              workflow_stage |-> "retrieval_triggered",
              retrieval_decision |->
                [intent_detected |-> analysis.intent_type,
                 domain |-> analysis.domain,
                 should_call_pinecone_retrieve |-> TRUE,
                 parameters |->
                   [index_name |-> index_name,
                    namespace |-> analysis.suggested_namespace,
                    query |-> query,
                    top_k |-> analysis.suggested_top_k]],
              message |-> <<"Auto-triggered ", analysis.intent_type,
                            " retrieval for domain: ", analysis.domain>>,
              next_steps |->
                <<"1. Call pinecone_retrieve with suggested parameters",
                  "2. Process and rank results",
                  "3. Generate contextual response",
                  "4. Provide source citations">>]
        ELSE [success |-> TRUE,
              workflow_stage |-> "direct_response",
              retrieval_decision |-> [should_retrieve |-> FALSE],
              message |-> "Query identified as conversational - responding directly without retrieval"]

(***************************************************************************)
(* conversational_rag_prompt (src/src/prompts/templates.py)                *)
(***************************************************************************)
\* conversation_context[:PROMPT_CONTEXT_CAP]
PROMPT_CONTEXT_CAP == 200

\* s[:n]
FirstChars(s, n) == IF Len(s) <= n THEN s ELSE SubSeq(s, 1, n)

\* {conversation_context[:200]}{"..." if len(conversation_context) > 200 else ""}
ContextEcho_EllipsisAtCap(conversation_context) ==
  FirstChars(conversation_context, PROMPT_CONTEXT_CAP)
    \o (IF Len(conversation_context) >= PROMPT_CONTEXT_CAP
          THEN <<".", ".", ".">>
          ELSE <<>>)

ContextEcho(conversation_context) ==
  FirstChars(conversation_context, PROMPT_CONTEXT_CAP)
    \o (IF Len(conversation_context) > PROMPT_CONTEXT_CAP
          THEN <<".", ".", ".">>
          ELSE <<>>)

\* the two interpolated parts of the prompt text
conversational_rag_prompt(current_query, conversation_context) ==
  [current_query |-> current_query,
   context |-> ContextEcho(conversation_context)]

(***************************************************************************)
(* Inputs of the model.                                                    *)
(***************************************************************************)
Phrases ==
  << <<"W","h","a","t"," ","i","s">>,
     <<"f","i","n","d">>,
     <<"c","o","m","p","a","r","e">>,
     <<"e","x","a","m","p","l","e">>,
     <<"A","P","I">>,
     <<"f","u","n","c","t","i","o","n">>,
     <<"m","a","r","k","e","t">>,
     <<"p","y","t","h","o","n">>,
     <<"i","t","?">>,
     <<"i","t","e","m">>,
     <<"h","i">> >>

PhraseSeqs == UNION {[1..n -> 1..Len(Phrases)] : n \in 0..MaxPhrases}

\* the phrases ps joined by single spaces
RECURSIVE Join(_)
Join(ps) ==
  IF ps = <<>> THEN <<>>
  ELSE IF Len(ps) = 1 THEN Phrases[ps[1]]
  ELSE Phrases[ps[1]] \o <<" ">> \o Join(Tail(ps))

PhraseQueries == {Join(ps) : ps \in PhraseSeqs}

\* n filler words, separated by a space or a tab in turn
RECURSIVE Filler(_)
Filler(n) ==
  IF n = 0 THEN <<>>
  ELSE Filler(n - 1) \o <<IF n % 2 = 1 THEN " " ELSE "\t", "x">>

\* at most one phrase followed by filler words
LongQueries ==
  {Join(ps) \o Filler(n) :
     ps \in {p \in PhraseSeqs : Len(p) <= 1}, n \in 1..MaxFill}

\* whitespace only, queries with and without the words of the two metrics,
\* and the routing example of the documentation
SampleQueries ==
  { <<" ">>,
    <<" ", "\t", " ">>,
    <<"d","e","t","a","i","l","s">>,
    <<"e","x","p","l","a","i","n"," ","i","t","e","m">>,
    <<"H","o","w"," ","d","o"," ","I"," ","f","i","x"," ","t","h","i","s"," ","A","P","I"," ","f","u","n","c","t","i","o","n"," ","b","u","g">> }

Queries == PhraseQueries \cup LongQueries \cup SampleQueries

\* a context of n characters in which every position is recognisable
Context(n) == [i \in 1..n |-> Digits[(i % 10) + 1]]

ContextLengths ==
  {0, 1, CONTEXT_TAIL, CONTEXT_TAIL + 1, CONTEXT_TAIL + MaxOver}

Contexts == {Context(n) : n \in ContextLengths}

IndexNames == {"main-knowledge", "docs"}

\* the calls made while other calls are open: a conversational and a
\* referential knowledge query, forced or not, without and with a context
ProbeRequests ==
  {[tool |-> "intelligent_retrieve", query |-> q,
    index_name |-> "main-knowledge", force_retrieval |-> f,
    conversation_context |-> c] :
     q \in {Join(<<11>>), Join(<<1, 9>>)},
     f \in BOOLEAN,
     c \in {Context(0), Context(CONTEXT_TAIL + 1)}}

(***************************************************************************)
(* The server.                                                             *)
(***************************************************************************)
Init ==
  /\ request = <<>>
  /\ locals = <<>>
  /\ response = <<>>
  /\ effects = {}
  /\ inflight = [i \in 1..MaxConcurrent |-> [request |-> <<>>, response |-> <<>>]]
  /\ sys_modules = {}
  /\ module_loadable \in BOOLEAN

\* the host calls intelligent_retrieve
CallIntelligentRetrieve ==
  /\ request = <<>>
  /\ \E q \in Queries, ix \in IndexNames, f \in BOOLEAN, c \in Contexts :
       request' = <<[tool |-> "intelligent_retrieve",
                     query |-> q, index_name |-> ix,
                     force_retrieval |-> f, conversation_context |-> c]>>
  /\ UNCHANGED <<locals, response, effects, inflight, sys_modules, module_loadable>>

\* the host calls query_intent_analyzer
CallQueryIntentAnalyzer ==
  /\ request = <<>>
  /\ \E q \in Queries :
       request' = <<[tool |-> "query_intent_analyzer", query |-> q]>>
  /\ UNCHANGED <<locals, response, effects, inflight, sys_modules, module_loadable>>

\* the handler of intelligent_retrieve runs
IntelligentRetrieve ==
  /\ request # <<>>
  /\ response = <<>>
  /\ request[1].tool = "intelligent_retrieve"
  /\ \E out \in {intelligent_retrieve(request[1].query,
                                       request[1].index_name,
                                       request[1].force_retrieval,
                                       request[1].conversation_context,
                                       sys_modules, module_loadable)} :
       /\ response' = <<out.result>>
       /\ locals' = <<out.locals>>
       /\ effects' = out.effects
       /\ sys_modules' = out.modules
  /\ UNCHANGED <<request, inflight, module_loadable>>

\* the handler of query_intent_analyzer runs
QueryIntentAnalyzer ==
  /\ request # <<>>
  /\ response = <<>>
  /\ request[1].tool = "query_intent_analyzer"
  /\ \E out \in {query_intent_analyzer(request[1].query)} :
       /\ response' = <<out>>
       /\ locals' = <<[analysis |-> out.analysis]>>
  /\ UNCHANGED <<request, effects, inflight, sys_modules, module_loadable>>

\* the response is sent; the call's objects are dropped
Return ==
  /\ response # <<>>
  /\ request' = <<>>
  /\ locals' = <<>>
  /\ response' = <<>>
  /\ effects' = {}
  /\ UNCHANGED <<inflight, sys_modules, module_loadable>>

Next ==
  \/ CallIntelligentRetrieve
  \/ CallQueryIntentAnalyzer
  \/ IntelligentRetrieve
  \/ QueryIntentAnalyzer
  \/ Return

Spec == Init /\ [][Next]_vars

(***************************************************************************)
(* The server with its workflow tool and its conversational prompt.        *)
(***************************************************************************)
WorkflowContexts == {Context(0), Context(CONTEXT_TAIL + 1)}

\* user_preferences: None or a dict
UserPreferences == {<<>>, <<[top_k |-> 20]>>}

\* the host calls auto_rag_workflow
CallAutoRagWorkflow ==
  /\ request = <<>>
  /\ \E q \in Queries, ix \in IndexNames, c \in WorkflowContexts,
        p \in UserPreferences :
       request' = <<[tool |-> "auto_rag_workflow",
                     query |-> q, index_name |-> ix,
                     conversation_context |-> c, user_preferences |-> p]>>
  /\ UNCHANGED <<locals, response, effects, inflight, sys_modules,
                 module_loadable>>

\* the handler of auto_rag_workflow runs
AutoRagWorkflow ==
  /\ request # <<>>
  /\ response = <<>>
  /\ request[1].tool = "auto_rag_workflow"
  /\ \E out \in {auto_rag_workflow(request[1].query, request[1].index_name,
                                    request[1].conversation_context,
                                    request[1].user_preferences)} :
       /\ response' = <<out>>
       /\ locals' = <<[analysis |-> analyze_query_intent(request[1].query)]>>
  /\ UNCHANGED <<request, effects, inflight, sys_modules, module_loadable>>

\* the host asks for the conversational_rag prompt
CallConversationalRag ==
  /\ request = <<>>
  /\ \E q \in SampleQueries, c \in Contexts :
       request' = <<[tool |-> "conversational_rag",
                     current_query |-> q, conversation_context |-> c]>>
  /\ UNCHANGED <<locals, response, effects, inflight, sys_modules,
                 module_loadable>>

\* the prompt function runs
ConversationalRag ==
  /\ request # <<>>
  /\ response = <<>>
  /\ request[1].tool = "conversational_rag"
  /\ response' = <<conversational_rag_prompt(request[1].current_query,
                                             request[1].conversation_context)>>
  /\ locals' = <<[current_query |-> request[1].current_query]>>
  /\ UNCHANGED <<request, effects, inflight, sys_modules, module_loadable>>

NextWorkflow ==
  \/ CallAutoRagWorkflow
  \/ AutoRagWorkflow
  \/ CallConversationalRag
  \/ ConversationalRag
  \/ Return

SpecWorkflow == Init /\ [][NextWorkflow]_vars

(***************************************************************************)
(* The server with several calls open at once.  intelligent_retrieve is an *)
(* async function without an await: the event loop runs each handler from  *)
(* its first line to its return before it starts another, so the handlers  *)
(* of the open calls run one after the other in any order.                 *)
(***************************************************************************)
\* the host calls intelligent_retrieve on connection i
ConcurrentCall(i) ==
  /\ inflight[i].request = <<>>
  /\ \E r \in ProbeRequests :
       inflight' = [inflight EXCEPT ![i].request = <<r>>]
  /\ UNCHANGED <<request, locals, response, effects, sys_modules,
                 module_loadable>>

\* the handler of the call on connection i runs
ConcurrentRun(i) ==
  /\ inflight[i].request # <<>>
  /\ inflight[i].response = <<>>
  /\ \E out \in {intelligent_retrieve(inflight[i].request[1].query,
                                       inflight[i].request[1].index_name,
                                       inflight[i].request[1].force_retrieval,
                                       inflight[i].request[1].conversation_context,
                                       sys_modules, module_loadable)} :
       /\ inflight' = [inflight EXCEPT ![i].response = <<out.result>>]
       /\ sys_modules' = out.modules
  /\ UNCHANGED <<request, locals, response, effects, module_loadable>>

\* the response of the call on connection i is sent
ConcurrentReturn(i) ==
  /\ inflight[i].response # <<>>
  /\ inflight' = [inflight EXCEPT ![i] = [request |-> <<>>, response |-> <<>>]]
  /\ UNCHANGED <<request, locals, response, effects, sys_modules,
                 module_loadable>>

NextConcurrent ==
  \E i \in 1..MaxConcurrent :
    \/ ConcurrentCall(i)
    \/ ConcurrentRun(i)
    \/ ConcurrentReturn(i)

SpecConcurrent == Init /\ [][NextConcurrent]_vars

TypeOK ==
  /\ Len(request) <= 1 /\ Len(locals) <= 1 /\ Len(response) <= 1
  /\ effects \subseteq {"exec_module"}
  /\ sys_modules \subseteq {"rag_module"}
  /\ module_loadable \in BOOLEAN
  /\ (response # <<>>) => (request # <<>> /\ locals # <<>>)
  /\ \A i \in 1..MaxConcurrent :
       /\ Len(inflight[i].request) <= 1 /\ Len(inflight[i].response) <= 1
       /\ (inflight[i].response # <<>>) => (inflight[i].request # <<>>)

(***************************************************************************)
(* Properties.                                                             *)
(***************************************************************************)
\* a call of the tool has returned and its response is not yet dropped
Returned(tool) == response # <<>> /\ request[1].tool = tool

\* the lower-cased query of the call in flight matches a pattern of the family
Matches(patterns) == AnySearch(patterns, Lower(request[1].query))

\* the query of the call in flight holds that/it/this/they/those as a word
HasPronoun == Search(REFERENTIAL_WORDS, Lower(request[1].query))

HasContext == request[1].conversation_context # <<>>

Min(a, b) == IF a <= b THEN a ELSE b

\* C1: the analysis of a query has the intent of the first family, in the
\* order knowledge, research, analysis, examples, with a matching pattern,
\* and needs_retrieval = TRUE.
C1_FirstMatchingFamily ==
  Returned("query_intent_analyzer") =>
    LET a == response[1].analysis
        k == Matches(KNOWLEDGE_PATTERNS)
        r == Matches(RESEARCH_PATTERNS)
        n == Matches(ANALYSIS_PATTERNS)
        e == Matches(EXAMPLE_PATTERNS)
    IN  /\ k => a.intent_type = "knowledge"
        /\ (~k /\ r) => a.intent_type = "research"
        /\ (~k /\ ~r /\ n) => a.intent_type = "analysis"
        /\ (~k /\ ~r /\ ~n /\ e) => a.intent_type = "examples"
        /\ (k \/ r \/ n \/ e) => a.needs_retrieval

\* a query matching a knowledge and a research pattern was analysed
C1_Witness ==
  /\ Returned("query_intent_analyzer")
  /\ Matches(KNOWLEDGE_PATTERNS) /\ Matches(RESEARCH_PATTERNS)
  /\ response[1].analysis.intent_type = "knowledge"

\* C2: a query matching no knowledge, research, analysis or example pattern
\* is analysed as needs_retrieval = FALSE, intent_type = "conversational".
C2_NoMatchConversational ==
  Returned("query_intent_analyzer") =>
    ((~Matches(KNOWLEDGE_PATTERNS) /\ ~Matches(RESEARCH_PATTERNS)
      /\ ~Matches(ANALYSIS_PATTERNS) /\ ~Matches(EXAMPLE_PATTERNS))
     => /\ response[1].analysis.needs_retrieval = FALSE
        /\ response[1].analysis.intent_type = "conversational")

\* a non-empty query matching no intent pattern was analysed
C2_Witness ==
  /\ Returned("query_intent_analyzer")
  /\ request[1].query # <<>>
  /\ ~Matches(KNOWLEDGE_PATTERNS) /\ ~Matches(RESEARCH_PATTERNS)
  /\ ~Matches(ANALYSIS_PATTERNS) /\ ~Matches(EXAMPLE_PATTERNS)
  /\ response[1].analysis.intent_type = "conversational"

\* C3: when the fused analysis needs retrieval or retrieval is forced,
\* intelligent_retrieve returns "retrieval_triggered" with retrieval_params
\* built from the caller's index_name, the suggested namespace and top_k and
\* the enhanced query, together with that enhanced query.
C3_RetrievalTriggered ==
  (/\ Returned("intelligent_retrieve")
   /\ (locals[1].analysis.needs_retrieval \/ request[1].force_retrieval))
  => /\ response[1].decision = "retrieval_triggered"
     /\ response[1].retrieval_params =
          [index_name |-> request[1].index_name,
           namespace |-> locals[1].analysis.suggested_namespace,
           query |-> locals[1].enhanced_query,
           top_k |-> locals[1].analysis.suggested_top_k]
     /\ response[1].enhanced_query = locals[1].enhanced_query

\* C4: with force_retrieval = TRUE every call of intelligent_retrieve returns
\* "retrieval_triggered", never "no_retrieval_needed".
C4_ForceAlwaysTriggers ==
  (Returned("intelligent_retrieve") /\ request[1].force_retrieval)
  => /\ response[1].decision = "retrieval_triggered"
     /\ response[1].decision # "no_retrieval_needed"

\* C5: intelligent_retrieve returns "no_retrieval_needed", with the analysis,
\* the message and suggested_response = "direct_answer", when the fused
\* analysis has needs_retrieval = FALSE and force_retrieval is FALSE, and in
\* no other situation.
C5_NoRetrievalExactlyWhen ==
  Returned("intelligent_retrieve") =>
    LET direct == /\ ~locals[1].analysis.needs_retrieval
                  /\ ~request[1].force_retrieval
    IN  /\ direct =>
             response[1] =
               [success |-> TRUE,
                decision |-> "no_retrieval_needed",
                intent_analysis |-> locals[1].analysis,
                message |->
                  "Query detected as conversational - no retrieval needed",
                suggested_response |-> "direct_answer"]
        /\ response[1].decision = "no_retrieval_needed" => direct

\* an unforced call with context on a conversational query answered directly
C5_Witness ==
  /\ Returned("intelligent_retrieve")
  /\ HasContext
  /\ ~request[1].force_retrieval
  /\ response[1].decision = "no_retrieval_needed"

\* C6: for well-typed arguments intelligent_retrieve never reaches its except
\* handler: no response has success = FALSE or decision "error".
C6_NeverError ==
  Returned("intelligent_retrieve") =>
    /\ response[1].success
    /\ response[1].decision # "error"

\* C7: with a non-empty context and a referential pronoun in the query, the
\* analysis is forced to needs_retrieval = TRUE and "contextual_reference",
\* and enhanced_query is the last CONTEXT_TAIL characters of the context (all
\* of a shorter one), one space, then the query.
C7_ContextFusion ==
  (Returned("intelligent_retrieve") /\ HasContext /\ HasPronoun) =>
    LET q == request[1].query
        c == request[1].conversation_context
        e == locals[1].enhanced_query
        t == Min(Len(c), 200)
    IN  /\ locals[1].analysis.needs_retrieval
        /\ locals[1].analysis.intent_type = "contextual_reference"
        /\ Len(e) = t + 1 + Len(q)
        /\ \A j \in 1..t : e[j] = c[Len(c) - t + j]
        /\ e[t + 1] = " "
        /\ \A j \in 1..Len(q) : e[t + 1 + j] = q[j]
        /\ response[1].decision = "retrieval_triggered" =>
             /\ response[1].enhanced_query = e
             /\ response[1].intent_analysis.intent_type = "contextual_reference"

\* a knowledge query with a pronoun and a context longer than the tail was
\* fused and retrieval was triggered
C7_Witness ==
  /\ Returned("intelligent_retrieve")
  /\ HasPronoun
  /\ Matches(KNOWLEDGE_PATTERNS)
  /\ Len(request[1].conversation_context) > 200
  /\ response[1].decision = "retrieval_triggered"
  /\ response[1].intent_analysis.intent_type = "contextual_reference"

\* C8: with an empty context enhanced_query is the query and the analysis is
\* the classifier's, never "contextual_reference", whatever the query holds.
C8_EmptyContextNoOverride ==
  (Returned("intelligent_retrieve") /\ ~HasContext) =>
    /\ locals[1].enhanced_query = request[1].query
    /\ locals[1].analysis.intent_type # "contextual_reference"
    /\ locals[1].analysis = analyze_query_intent(request[1].query)
    /\ response[1].decision = "retrieval_triggered" =>
         response[1].enhanced_query = request[1].query

\* a query with a pronoun and no context was handled
C8_Witness ==
  /\ Returned("intelligent_retrieve")
  /\ ~HasContext
  /\ HasPronoun
  /\ locals[1].enhanced_query = request[1].query

\* C9: with a non-empty context and no referential pronoun in the query,
\* enhanced_query is the query, the analysis is the classifier's, and the
\* response is the one the same call gets with an empty context.
C9_NoPronounNoOverride ==
  (Returned("intelligent_retrieve") /\ HasContext /\ ~HasPronoun) =>
    /\ locals[1].enhanced_query = request[1].query
    /\ locals[1].analysis = analyze_query_intent(request[1].query)
    /\ response[1] =
         intelligent_retrieve(request[1].query, request[1].index_name,
                              request[1].force_retrieval, <<>>, {},
                              module_loadable).result

\* a query holding "item" but no pronoun, with a context, triggered retrieval
C9_Witness ==
  /\ Returned("intelligent_retrieve")
  /\ HasContext
  /\ ~HasPronoun
  /\ \E i \in 1..Len(request[1].query) - 1 :
       request[1].query[i] = "i" /\ request[1].query[i + 1] = "t"
  /\ response[1].decision = "retrieval_triggered"

\* C10: a "no_retrieval_needed" response has no retrieval_params and no
\* enhanced_query, a "retrieval_triggered" response has both and no
\* suggested_response.
C10_OneDecisionKind ==
  Returned("intelligent_retrieve") =>
    LET keys == DOMAIN response[1]
    IN  /\ response[1].decision = "no_retrieval_needed" =>
             /\ "retrieval_params" \notin keys
             /\ "enhanced_query" \notin keys
             /\ "suggested_response" \in keys
        /\ response[1].decision = "retrieval_triggered" =>
             /\ "retrieval_params" \in keys
             /\ "enhanced_query" \in keys
             /\ "suggested_response" \notin keys

\* both kinds of response occur; this one is a triggered retrieval
C10_Witness ==
  /\ Returned("intelligent_retrieve")
  /\ response[1].decision = "retrieval_triggered"
  /\ "retrieval_params" \in DOMAIN response[1]

\* C11: an error raised inside intelligent_retrieve is caught by its except
\* handler: the call still returns, and what it returns is exactly success =
\* FALSE, an error message and decision = "error".
C11_ErrorsAreStructured ==
  Returned("intelligent_retrieve") =>
    /\ ("exec_module" \in effects /\ ~module_loadable) =>
         /\ DOMAIN response[1] = {"success", "error", "decision"}
         /\ response[1].success = FALSE
         /\ response[1].decision = "error"
         /\ response[1].error[1] = "Intelligent retrieval failed: "
    /\ response[1].success = FALSE =>
         ("decision" \in DOMAIN response[1] /\ response[1].decision = "error")

\* the module load raised inside a call and the call returned an error result
C11_Witness ==
  /\ Returned("intelligent_retrieve")
  /\ "exec_module" \in effects
  /\ ~module_loadable
  /\ response[1].decision = "error"

\* C12: the domain of an analysis is the first of technical, business, code
\* with a matching pattern, else "general"; a query matching a technical and a
\* code pattern is technical, with suggested_namespace "technical".
C12_FirstMatchingDomain ==
  Returned("query_intent_analyzer") =>
    LET a == response[1].analysis
        t == Matches(TECHNICAL_PATTERNS)
        b == Matches(BUSINESS_PATTERNS)
        c == Matches(CODE_PATTERNS)
    IN  /\ a.domain \in {"technical", "business", "code", "general"}
        /\ t => a.domain = "technical"
        /\ (~t /\ b) => a.domain = "business"
        /\ (~t /\ ~b /\ c) => a.domain = "code"
        /\ (~t /\ ~b /\ ~c) => a.domain = "general"
        /\ (t /\ c) => a.suggested_namespace = "technical"

\* the query "How do I fix this API function bug", matching technical and
\* code patterns, was analysed as technical
C12_Witness ==
  /\ Returned("query_intent_analyzer")
  /\ Len(request[1].query) = 34
  /\ Matches(TECHNICAL_PATTERNS) /\ Matches(CODE_PATTERNS)
  /\ response[1].analysis.domain = "technical"
  /\ response[1].analysis.suggested_namespace = "technical"

\* the number of maximal runs of non-whitespace characters of q, counted at
\* the last character of each run
TokenCount(q) ==
  Cardinality({i \in 1..Len(q) :
                 /\ ~IsSpace(q[i])
                 /\ (i = Len(q) \/ IsSpace(q[i + 1]))})

\* C13: word_count is the number of whitespace-separated tokens of the query
\* and complexity is "simple" up to 3 words, "medium" from 4 to 8, "complex"
\* from 9 on.
C13_ComplexityBuckets ==
  Returned("query_intent_analyzer") =>
    LET a == response[1].analysis
        n == a.query_analysis.word_count
    IN  /\ n = TokenCount(request[1].query)
        /\ n <= 3 => a.complexity = "simple"
        /\ (4 <= n /\ n <= 8) => a.complexity = "medium"
        /\ n >= 9 => a.complexity = "complex"

\* an 8-word query whose words are separated by spaces and tabs was analysed
\* as medium
C13_Witness ==
  /\ Returned("query_intent_analyzer")
  /\ TokenCount(request[1].query) = 8
  /\ \E i \in 1..Len(request[1].query) : request[1].query[i] = "\t"
  /\ response[1].analysis.complexity = "medium"

\* C14: suggested_top_k is 3 for simple, 5 for medium, 10 for complex; the
\* complexity is always one of the three, so the default of the lookup is
\* never taken.
C14_TopKOfComplexity ==
  Returned("query_intent_analyzer") =>
    LET a == response[1].analysis
    IN  /\ a.complexity \in {"simple", "medium", "complex"}
        /\ a.suggested_top_k \in {3, 5, 10}
        /\ a.complexity = "simple" => a.suggested_top_k = 3
        /\ a.complexity = "medium" => a.suggested_top_k = 5
        /\ a.complexity = "complex" => a.suggested_top_k = 10

\* a 9-word query was analysed as complex with top_k 10
C14_Witness ==
  /\ Returned("query_intent_analyzer")
  /\ response[1].analysis.query_analysis.word_count = 9
  /\ response[1].analysis.complexity = "complex"
  /\ response[1].analysis.suggested_top_k = 10

\* C15: suggested_namespace is the domain name for technical, code and
\* business and the empty string for general, so it is empty exactly when the
\* domain is "general".
C15_NamespaceOfDomain ==
  Returned("query_intent_analyzer") =>
    LET a == response[1].analysis
    IN  /\ (a.suggested_namespace = "") <=> (a.domain = "general")
        /\ a.domain # "general" => a.suggested_namespace = a.domain

\* a query of the code domain was analysed with namespace "code"
C15_Witness ==
  /\ Returned("query_intent_analyzer")
  /\ response[1].analysis.domain = "code"
  /\ response[1].analysis.suggested_namespace = "code"

\* every character of the query of the call in flight is whitespace
BlankQuery == \A i \in 1..Len(request[1].query) : IsSpace(request[1].query[i])

\* C16: an empty or whitespace-only query is analysed as word_count 0,
\* "simple", "conversational", needs_retrieval FALSE, "general", and
\* intelligent_retrieve without force_retrieval answers it with
\* "no_retrieval_needed".
C16_BlankQuery ==
  /\ (Returned("query_intent_analyzer") /\ BlankQuery) =>
       LET a == response[1].analysis
       IN  /\ a.query_analysis.word_count = 0
           /\ a.complexity = "simple"
           /\ a.intent_type = "conversational"
           /\ a.needs_retrieval = FALSE
           /\ a.domain = "general"
  /\ (Returned("intelligent_retrieve") /\ BlankQuery
      /\ ~request[1].force_retrieval) =>
       /\ response[1].decision = "no_retrieval_needed"
       /\ response[1].intent_analysis.query_analysis.word_count = 0
       /\ response[1].intent_analysis.complexity = "simple"

\* a query of whitespace only was answered directly although a context came
\* with it
C16_Witness ==
  /\ Returned("intelligent_retrieve")
  /\ BlankQuery
  /\ request[1].query # <<>>
  /\ HasContext
  /\ response[1].decision = "no_retrieval_needed"

\* the call on connection i has returned and its response is not yet sent
Answered(i) == inflight[i].response # <<>>

\* what the call on connection i returns when it is the only call the server
\* ever gets
RunAlone(i) ==
  intelligent_retrieve(inflight[i].request[1].query,
                       inflight[i].request[1].index_name,
                       inflight[i].request[1].force_retrieval,
                       inflight[i].request[1].conversation_context,
                       {}, module_loadable).result

\* C17: two calls of intelligent_retrieve with the same arguments return the
\* same result, whatever calls were handled between them.
C17_SameArgumentsSameResult ==
  \A i, j \in 1..MaxConcurrent :
    (/\ Answered(i) /\ Answered(j)
     /\ inflight[i].request = inflight[j].request)
    => inflight[i].response = inflight[j].response

\* the same call was made twice and reached the module load both times, the
\* second time with sys.modules already written by an earlier call
C17_Witness ==
  \E i, j \in 1..MaxConcurrent :
    /\ i # j
    /\ Answered(i) /\ Answered(j)
    /\ inflight[i].request = inflight[j].request
    /\ inflight[i].response[1].decision # "no_retrieval_needed"
    /\ sys_modules = {"rag_module"}

\* C18: with several calls open at once, each call returns the result it
\* returns when run alone.
C18_CallsDoNotInteract ==
  \A i \in 1..MaxConcurrent :
    Answered(i) => inflight[i].response[1] = RunAlone(i)

\* two calls with different queries were open together and both returned, one
\* of them through the module load
C18_Witness ==
  \E i, j \in 1..MaxConcurrent :
    /\ Answered(i) /\ Answered(j)
    /\ inflight[i].request[1].query # inflight[j].request[1].query
    /\ inflight[i].response[1].decision # "no_retrieval_needed"
    /\ inflight[j].response[1] = RunAlone(j)

\* C19: a call leaves the process-wide state as it was: nothing is ever
\* bound in sys.modules by the coordinator.
C19_NoProcessStateChange == sys_modules = {}

\* C20: intelligent_retrieve performs no I/O: no call loads or executes a file
\* or calls pinecone_retrieve.
C20_NoIO ==
  Returned("intelligent_retrieve") => effects = {}

\* s with every letter of the sequence from replaced by the letter of to
Recase(s, from, to) ==
  [i \in 1..Len(s) |->
     IF \E k \in 1..Len(from) : from[k] = s[i]
       THEN to[CHOOSE k \in 1..Len(from) : from[k] = s[i]]
       ELSE s[i]]

\* the fields of an analysis that classify the query
Classification(a) ==
  <<a.intent_type, a.needs_retrieval, a.domain, a.complexity,
    a.suggested_top_k, a.suggested_namespace>>

\* C21: a query and its all-lower-case and all-upper-case spellings get the
\* same intent_type, needs_retrieval, domain, complexity, top_k and namespace,
\* and enhanced_query and retrieval_params.query hold the query in the case it
\* was supplied in.
C21_CaseInsensitive ==
  /\ Returned("query_intent_analyzer") =>
       LET q == request[1].query
           c == Classification(response[1].analysis)
       IN  /\ c = Classification(
                    analyze_query_intent(Recase(q, UpperCase, LowerCase)))
           /\ c = Classification(
                    analyze_query_intent(Recase(q, LowerCase, UpperCase)))
  /\ Returned("intelligent_retrieve") =>
       LET q == request[1].query
           e == locals[1].enhanced_query
       IN  /\ Len(e) >= Len(q)
           /\ \A j \in 1..Len(q) : e[Len(e) - Len(q) + j] = q[j]
           /\ response[1].decision = "retrieval_triggered" =>
                /\ response[1].enhanced_query = e
                /\ response[1].retrieval_params.query = e

\* a query written with capitals was fused with its context and passed on
\* with its capitals
C21_Witness ==
  /\ Returned("intelligent_retrieve")
  /\ HasContext /\ HasPronoun
  /\ request[1].query[1] = "W"
  /\ response[1].decision = "retrieval_triggered"
  /\ response[1].enhanced_query[Len(response[1].enhanced_query)
                                  - Len(request[1].query) + 1] = "W"
  /\ Matches(KNOWLEDGE_PATTERNS)

\* which of the technical, business and code families match the query q
DomainMatches(q) ==
  <<AnySearch(TECHNICAL_PATTERNS, Lower(q)),
    AnySearch(BUSINESS_PATTERNS, Lower(q)),
    AnySearch(CODE_PATTERNS, Lower(q))>>

\* the domain matches and the domain of the one-phrase and sample queries
ReferenceDomains ==
  {<<DomainMatches(q), DomainOf(Lower(q))>> :
     q \in {Join(ps) : ps \in {p \in PhraseSeqs : Len(p) <= 1}}
             \cup SampleQueries}

\* C22: the domain depends only on which domain patterns match: a query has
\* the domain of every reference query with the same domain matches, whatever
\* intent either of them has, and its namespace follows its domain.
C22_DomainIndependentOfIntent ==
  Returned("query_intent_analyzer") =>
    LET a == response[1].analysis
        m == DomainMatches(request[1].query)
    IN  /\ \A r \in ReferenceDomains : r[1] = m => r[2] = a.domain
        /\ (m # <<FALSE, FALSE, FALSE>>) =>
             (a.domain # "general" /\ a.suggested_namespace # "")

\* a conversational query was analysed with a domain and a namespace
C22_Witness ==
  /\ Returned("query_intent_analyzer")
  /\ response[1].analysis.needs_retrieval = FALSE
  /\ response[1].analysis.intent_type = "conversational"
  /\ response[1].analysis.domain = "technical"
  /\ response[1].analysis.suggested_namespace = "technical"

\* C23: the context echoed in the conversational prompt is the whole context
\* when it has at most 200 characters and its first 200 characters followed
\* by "..." when it is longer; the prompt returns text only.
C23_ContextEchoCapped ==
  Returned("conversational_rag") =>
    LET c == request[1].conversation_context
        e == response[1].context
    IN  /\ Len(c) <= 200 => e = c
        /\ Len(c) > 200 =>
             /\ Len(e) = 203
             /\ \A j \in 1..200 : e[j] = c[j]
             /\ \A j \in 201..203 : e[j] = "."
        /\ DOMAIN response[1] = {"current_query", "context"}
        /\ effects = {} /\ sys_modules = {}

\* a context longer than the cap was echoed cut, with the ellipsis
C23_Witness ==
  /\ Returned("conversational_rag")
  /\ Len(request[1].conversation_context) > 200
  /\ Len(response[1].context) = 203
  /\ response[1].context[203] = "."

\* needs_retrieval is TRUE exactly when the intent is not conversational
RetrievesUnlessConversational(a) ==
  a.needs_retrieval <=> a.intent_type # "conversational"

\* C24: in every analysis a tool emits, from analyze_query_intent alone or
\* after the fusion override, needs_retrieval is TRUE if and only if
\* intent_type is not "conversational".
C24_NeedsRetrievalIffNotConversational ==
  /\ Returned("query_intent_analyzer") =>
       /\ RetrievesUnlessConversational(response[1].analysis)
       /\ response[1].recommendations.should_retrieve
            <=> response[1].analysis.intent_type # "conversational"
  /\ Returned("intelligent_retrieve") =>
       /\ RetrievesUnlessConversational(locals[1].analysis)
       /\ "intent_analysis" \in DOMAIN response[1] =>
            RetrievesUnlessConversational(response[1].intent_analysis)

\* a conversational query was overridden by context fusion and its analysis
\* was returned
C24_Witness ==
  /\ Returned("intelligent_retrieve")
  /\ HasContext /\ HasPronoun
  /\ ~Matches(KNOWLEDGE_PATTERNS) /\ ~Matches(RESEARCH_PATTERNS)
  /\ ~Matches(ANALYSIS_PATTERNS) /\ ~Matches(EXAMPLE_PATTERNS)
  /\ "intent_analysis" \in DOMAIN response[1]
  /\ response[1].intent_analysis.intent_type = "contextual_reference"
  /\ response[1].intent_analysis.needs_retrieval

\* the fields of an analysis that fusion leaves alone
Unfused(a) ==
  <<a.domain, a.complexity, a.suggested_top_k, a.suggested_namespace,
    a.query_analysis.word_count>>

\* C25: context fusion changes only needs_retrieval, intent_type and
\* enhanced_query: domain, complexity, suggested_top_k, suggested_namespace
\* and word_count of the analysis, and top_k and namespace of
\* retrieval_params, are those of the original query alone.
C25_FusionFrame ==
  Returned("intelligent_retrieve") =>
    LET own == analyze_query_intent(request[1].query)
    IN  /\ Unfused(locals[1].analysis) = Unfused(own)
        /\ locals[1].analysis.query_analysis = own.query_analysis
        /\ "intent_analysis" \in DOMAIN response[1] =>
             Unfused(response[1].intent_analysis) = Unfused(own)
        /\ "retrieval_params" \in DOMAIN response[1] =>
             /\ response[1].retrieval_params.top_k = own.suggested_top_k
             /\ response[1].retrieval_params.namespace
                  = own.suggested_namespace
        /\ ~(HasContext /\ HasPronoun) =>
             /\ locals[1].analysis = own
             /\ locals[1].enhanced_query = request[1].query

\* a fused call returned the parameters of the original query although the
\* enhanced query has more words
C25_Witness ==
  /\ Returned("intelligent_retrieve")
  /\ HasContext /\ HasPronoun
  /\ response[1].decision = "retrieval_triggered"
  /\ response[1].intent_analysis.intent_type = "contextual_reference"
  /\ WordCount(response[1].enhanced_query)
       > response[1].intent_analysis.query_analysis.word_count
  /\ response[1].retrieval_params.query # request[1].query

\* C26: force_retrieval changes the branch and never the analysis: the
\* intent_analysis returned with force_retrieval = TRUE is the one returned
\* with force_retrieval = FALSE, and a forced conversational query reports
\* needs_retrieval = FALSE and intent_type "conversational" in a
\* retrieval_triggered result.
C26_ForceKeepsAnalysis ==
  (Returned("intelligent_retrieve") /\ request[1].force_retrieval) =>
    LET unforced ==
          intelligent_retrieve(request[1].query, request[1].index_name, FALSE,
                               request[1].conversation_context, {},
                               module_loadable).result
    IN  /\ "intent_analysis" \in DOMAIN response[1]
        /\ "intent_analysis" \in DOMAIN unforced
        /\ response[1].intent_analysis = unforced.intent_analysis
        /\ ~locals[1].analysis.needs_retrieval =>
             /\ response[1].decision = "retrieval_triggered"
             /\ response[1].intent_analysis.intent_type = "conversational"

\* C27: whether the module file loads matters to the retrieval branch only:
\* a call with needs_retrieval = FALSE and force_retrieval = FALSE returns
\* "no_retrieval_needed", the same result and no load whether or not the
\* file loads; a call that reaches the retrieval branch when the load fails
\* returns success = FALSE with decision "error" and no retrieval_params.
C27_LoadMattersOnlyWhenRetrieving ==
  Returned("intelligent_retrieve") =>
    LET direct == ~locals[1].analysis.needs_retrieval
                    /\ ~request[1].force_retrieval
    IN  /\ direct =>
             /\ response[1].decision = "no_retrieval_needed"
             /\ effects = {}
             /\ response[1]
                  = intelligent_retrieve(
                      request[1].query, request[1].index_name,
                      request[1].force_retrieval,
                      request[1].conversation_context, {},
                      ~module_loadable).result
        /\ (~direct /\ ~module_loadable) =>
             /\ response[1].success = FALSE
             /\ response[1].decision = "error"
             /\ "retrieval_params" \notin DOMAIN response[1]
        /\ (~direct /\ module_loadable) =>
             response[1].decision = "retrieval_triggered"

\* with the file missing, one call was answered directly
C27_Witness ==
  /\ Returned("intelligent_retrieve")
  /\ ~module_loadable
  /\ ~request[1].force_retrieval
  /\ HasContext
  /\ response[1].decision = "no_retrieval_needed"
  /\ response[1].success

\* some pattern of the four intent families matches the query in flight
MatchesAnIntent ==
  \/ Matches(KNOWLEDGE_PATTERNS) \/ Matches(RESEARCH_PATTERNS)
  \/ Matches(ANALYSIS_PATTERNS) \/ Matches(EXAMPLE_PATTERNS)

\* C28: auto_rag_workflow decides from the analysis of the query alone: its
\* workflow_stage is "retrieval_triggered" if and only if the query needs
\* retrieval by its own patterns, parameters.query is the unmodified query,
\* and the result is the one of the same call without conversation_context
\* and without user_preferences.
C28_WorkflowIgnoresContext ==
  Returned("auto_rag_workflow") =>
    /\ response[1].workflow_stage \in {"retrieval_triggered", "direct_response"}
    /\ response[1].workflow_stage = "retrieval_triggered" <=> MatchesAnIntent
    /\ response[1].workflow_stage = "retrieval_triggered"
         <=> locals[1].analysis.needs_retrieval
    /\ response[1].workflow_stage = "retrieval_triggered" =>
         /\ response[1].retrieval_decision.parameters.query = request[1].query
         /\ response[1].retrieval_decision.intent_detected
              # "contextual_reference"
    /\ response[1] = auto_rag_workflow(request[1].query, request[1].index_name,
                                       <<>>, <<>>)

\* a referential query with a context and preferences, which
\* intelligent_retrieve fuses, got a direct response from the workflow
C28_Witness ==
  /\ Returned("auto_rag_workflow")
  /\ HasContext /\ HasPronoun
  /\ request[1].user_preferences # <<>>
  /\ response[1].workflow_stage = "direct_response"
  /\ intelligent_retrieve(request[1].query, request[1].index_name, FALSE,
                          request[1].conversation_context, {}, TRUE)
       .result.intent_analysis.intent_type = "contextual_reference"

\* the top_k and the namespace a result suggests: the set is empty when the
\* result suggests none
Suggested(result, path) ==
  IF path[1] \notin DOMAIN result
    THEN {}
    ELSE IF path[2] \notin DOMAIN result[path[1]]
      THEN {}
      ELSE {<<result[path[1]][path[2]].top_k,
              result[path[1]][path[2]].namespace>>}

\* C29: with an empty context and force_retrieval = FALSE, intelligent_retrieve
\* returns "no_retrieval_needed" exactly when auto_rag_workflow returns
\* "direct_response" and exactly when query_intent_analyzer recommends
\* should_retrieve = FALSE, and the top_k and namespace the tools suggest are
\* equal.
C29_ToolsAgree ==
  (Returned("auto_rag_workflow") /\ ~HasContext) =>
    LET ir == intelligent_retrieve(request[1].query, request[1].index_name,
                                   FALSE, <<>>, sys_modules,
                                   module_loadable).result
        qa == query_intent_analyzer(request[1].query)
        direct == response[1].workflow_stage = "direct_response"
        suggestions ==
          Suggested(response[1], <<"retrieval_decision", "parameters">>)
            \cup Suggested([r |-> ir], <<"r", "retrieval_params">>)
            \cup Suggested(qa, <<"recommendations", "retrieval_params">>)
            \cup (IF "intent_analysis" \in DOMAIN ir
                    THEN {<<ir.intent_analysis.suggested_top_k,
                            ir.intent_analysis.suggested_namespace>>}
                    ELSE {})
    IN  /\ ir.decision = "no_retrieval_needed" <=> direct
        /\ qa.recommendations.should_retrieve = FALSE <=> direct
        /\ Cardinality(suggestions) = 1

\* for one retrieving query the workflow, the coordinator and the analyzer
\* all suggested parameters
C29_Witness ==
  /\ Returned("auto_rag_workflow") /\ ~HasContext
  /\ module_loadable
  /\ response[1].workflow_stage = "retrieval_triggered"
  /\ response[1].retrieval_decision.parameters.top_k = 5
  /\ response[1].retrieval_decision.parameters.namespace = "technical"
  /\ intelligent_retrieve(request[1].query, request[1].index_name, FALSE,
                          <<>>, sys_modules, module_loadable)
       .result.retrieval_params.top_k = 5

\* the analyses of the one-phrase and sample queries
ReferenceAnalyses ==
  {analyze_query_intent(q) :
     q \in {Join(ps) : ps \in {p \in PhraseSeqs : Len(p) <= 1}}
             \cup SampleQueries}

\* two analyses with the same intent family, domain and word count
SameInputs(a, b) ==
  /\ a.intent_type = b.intent_type
  /\ a.domain = b.domain
  /\ a.query_analysis.word_count = b.query_analysis.word_count

\* C30: has_question_words and is_specific are used neither in the parameters
\* nor in the decision: a query gets the suggested_top_k, suggested_namespace
\* and needs_retrieval of every reference query with the same intent family,
\* domain and word count, whatever the two metrics of either are.
C30_MetricsUnused ==
  Returned("query_intent_analyzer") =>
    LET a == response[1].analysis
    IN  \A r \in ReferenceAnalyses :
          SameInputs(a, r) =>
            /\ r.suggested_top_k = a.suggested_top_k
            /\ r.suggested_namespace = a.suggested_namespace
            /\ r.needs_retrieval = a.needs_retrieval
            /\ response[1].recommendations.should_retrieve = r.needs_retrieval
            /\ response[1].recommendations.retrieval_params.top_k
                 = r.suggested_top_k

\* a query with is_specific TRUE was analysed like a reference query with
\* is_specific FALSE
C30_Witness ==
  /\ Returned("query_intent_analyzer")
  /\ response[1].analysis.query_analysis.is_specific
  /\ \E r \in ReferenceAnalyses :
       /\ SameInputs(response[1].analysis, r)
       /\ ~r.query_analysis.is_specific
       /\ r.suggested_top_k = response[1].analysis.suggested_top_k
  /\ \E r1, r2 \in ReferenceAnalyses :
       /\ SameInputs(r1, r2)
       /\ r1.query_analysis.has_question_words
       /\ ~r2.query_analysis.has_question_words

=============================================================================
